---- MODULE Spec2Model ----
(***************************************************************************)
(* Moving-average crossover back-test with a stop-loss / take-profit       *)
(* overlay and an exhaustive parameter search                              *)
(* (trading_strategy.py, main.py, metrics.py).                             *)
(*                                                                         *)
(* Conventions.  A column of the DataFrame is a function over the row      *)
(* positions 0..n-1 (the positions .iloc uses).  A column that does not    *)
(* exist yet is the function with the empty domain.  Floating-point values *)
(* are exact rationals <<num, den>> with den > 0 (returns in lowest        *)
(* terms, moving averages as sum over window); NaN is <<0, 0>> and -inf is *)
(* <<-1, 0>>.  stop_loss and take_profit are carried                       *)
(* as integer percentages (0.05 is 5), so                                  *)
(*   close[i] < close[i-1] * (1 - stop_loss)                               *)
(* is  close[i] * 100 < close[i-1] * (100 - stop_loss).                    *)
(* Chained assignments (df[col][a:] = v, df[col].iloc[i] = v) write        *)
(* through to the table, as they do in the pandas versions that still have *)
(* pd.errors.SettingWithCopyWarning, which main.py imports.                *)
(***************************************************************************)
EXTENDS Integers, Sequences, FiniteSets, TLC

VARIABLES crypto_data, pc, params, overwrote, error,
          mode, grid, idx, best_params, best_return, best_results

vars == <<crypto_data, pc, params, overwrote, error,
          mode, grid, idx, best_params, best_return, best_results>>

searchVars == <<mode, grid, idx, best_params, best_return, best_results>>

(***************************************************************************)
(* Bounds and input sets                                                   *)
(***************************************************************************)
MaxLen == 4

Prices == {18, 20, 23}

Windows == {1, 2, 3}

StopLossPcts == {10, 100}

TakeProfitPcts == {0, 15}

ShortWindowLists == {<<>>, <<1>>, <<2>>, <<1, 2>>, <<2, 1>>}

LongWindowLists == {<<>>, <<2>>, <<3>>, <<2, 3>>, <<3, 4>>}

StopLossLists == {<<10>>, <<50, 10>>}

TakeProfitLists == {<<15>>, <<15, 50>>}

PriceSeries == UNION {[0 .. (n - 1) -> Prices] : n \in 0 .. MaxLen}

(***************************************************************************)
(* Floating-point values as exact rationals                                *)
(***************************************************************************)
NaN == <<0, 0>>

NegInf == <<-1, 0>>

Abs(x) == IF x < 0 THEN -x ELSE x

RECURSIVE GCD(_, _)
GCD(a, b) == IF b = 0 THEN a ELSE GCD(b, a % b)

Rat(n, d) == LET g == GCD(Abs(n), d) IN <<n \div g, d \div g>>

IsFinite(x) == x[2] > 0

\* a > b on floats: False as soon as one side is NaN
Gt(a, b) ==
    IF a = NaN \/ b = NaN THEN FALSE
    ELSE IF a = NegInf THEN FALSE
    ELSE IF b = NegInf THEN TRUE
    ELSE a[1] * b[2] > b[1] * a[2]

Mul(a, b) ==
    IF IsFinite(a) /\ IsFinite(b) THEN Rat(a[1] * b[1], a[2] * b[2]) ELSE NaN

Plus(a, k) == IF IsFinite(a) THEN Rat(a[1] + k * a[2], a[2]) ELSE NaN

(***************************************************************************)
(* The table                                                               *)
(***************************************************************************)
Absent == [i \in {} |-> 0]

Len0(col) == Cardinality(DOMAIN col)

NewTable(close) ==
    [Close |-> close,
     SMA_Short |-> Absent, SMA_Long |-> Absent,
     Signal |-> Absent, Position |-> Absent,
     Managed_Position |-> Absent,
     Daily_Return |-> Absent, Strategy_Return |-> Absent,
     Cumulative_Market_Returns |-> Absent,
     Cumulative_Strategy_Returns |-> Absent]

\* df[col] = v : the column is replaced, whatever it held
AssignScalarKeepOld(old, index, v) ==
    IF DOMAIN old = index THEN old ELSE [i \in index |-> v]

AssignScalar(old, index, v) == [i \in index |-> v]

(***************************************************************************)
(* apply_moving_average_strategy                                           *)
(***************************************************************************)
RECURSIVE SumRange(_, _, _)
SumRange(close, lo, hi) ==
    IF hi < lo THEN 0 ELSE close[hi] + SumRange(close, lo, hi - 1)

\* Series.rolling(window).mean(): NaN until the window is full, then the
\* mean as the fraction sum / window (compared by Gt, never reduced)
rolling_mean_late(close, window) ==
    [i \in DOMAIN close |->
        IF i >= window
        THEN <<SumRange(close, i - window + 1, i), window>>
        ELSE NaN]

rolling_mean(close, window) ==
    [i \in DOMAIN close |->
        IF i >= window - 1
        THEN <<SumRange(close, i - window + 1, i), window>>
        ELSE NaN]

apply_moving_average_strategy(df, short_window, long_window) ==
    LET rows == DOMAIN df.Close
        smaShort == rolling_mean(df.Close, short_window)
        smaLong == rolling_mean(df.Close, long_window)
        \* crypto_data['Signal'] = 0
        zero == AssignScalar(df.Signal, rows, 0)
        \* crypto_data['Signal'][short_window:] = np.where(...)
        signal == [i \in rows |->
                     IF i >= short_window
                     THEN (IF Gt(smaShort[i], smaLong[i]) THEN 1 ELSE 0)
                     ELSE zero[i]]
        \* Signal.diff().fillna(0)
        position == [i \in rows |->
                       IF i = 0 THEN 0 ELSE signal[i] - signal[i - 1]]
    IN [df EXCEPT !.SMA_Short = smaShort, !.SMA_Long = smaLong,
                  !.Signal = signal, !.Position = position]

(***************************************************************************)
(* apply_risk_management                                                   *)
(***************************************************************************)
StopLossHit(close, i, stop_loss) ==
    close[i] * 100 < close[i - 1] * (100 - stop_loss)

TakeProfitHit(close, i, take_profit) ==
    close[i] * 100 > close[i - 1] * (100 + take_profit)

ForcedExitNonStrict(close, i, stop_loss, take_profit) ==
    \/ close[i] * 100 <= close[i - 1] * (100 - stop_loss)
    \/ close[i] * 100 >= close[i - 1] * (100 + take_profit)

ForcedExit(close, i, stop_loss, take_profit) ==
    IF StopLossHit(close, i, stop_loss) THEN TRUE
    ELSE TakeProfitHit(close, i, take_profit)

\* one pass of the for loop body, rows i .. n-1, on the column mp
RECURSIVE RiskLoopAnyPrev(_, _, _, _, _, _)
RiskLoopAnyPrev(mp, signal, close, stop_loss, take_profit, i) ==
    IF i >= Len0(close) THEN mp
    ELSE LET bySignal == IF signal[i] = 1 THEN 1
                         ELSE IF signal[i] = 0 THEN 0 ELSE mp[i]
             managed == IF ForcedExit(close, i, stop_loss, take_profit)
                        THEN 0 ELSE bySignal
         IN RiskLoopAnyPrev([mp EXCEPT ![i] = managed], signal, close,
                            stop_loss, take_profit, i + 1)

RECURSIVE RiskLoop(_, _, _, _, _, _)
RiskLoop(mp, signal, close, stop_loss, take_profit, i) ==
    IF i >= Len0(close) THEN mp
    ELSE LET bySignal == IF signal[i] = 1 THEN 1
                         ELSE IF signal[i] = 0 THEN 0 ELSE mp[i]
             managed == IF mp[i - 1] = 1
                           /\ ForcedExit(close, i, stop_loss, take_profit)
                        THEN 0 ELSE bySignal
         IN RiskLoop([mp EXCEPT ![i] = managed], signal, close,
                     stop_loss, take_profit, i + 1)

apply_risk_management(df, stop_loss, take_profit) ==
    LET zero == AssignScalar(df.Managed_Position, DOMAIN df.Close, 0)
    IN [df EXCEPT !.Managed_Position =
            RiskLoop(zero, df.Signal, df.Close, stop_loss, take_profit, 1)]

(***************************************************************************)
(* backtest_strategy                                                       *)
(***************************************************************************)
pct_change(close) ==
    [i \in DOMAIN close |->
        IF i = 0 THEN NaN ELSE Rat(close[i] - close[i - 1], close[i - 1])]

\* Series.shift(1) of an integer column: NaN enters at row 0
shift_back(col) ==
    [i \in DOMAIN col |->
        IF i + 1 \in DOMAIN col THEN <<col[i + 1], 1>> ELSE NaN]

shift(col) ==
    [i \in DOMAIN col |-> IF i = 0 THEN NaN ELSE <<col[i - 1], 1>>]

\* running product of the non-NaN entries of rows 0 .. i (skipna)
RECURSIVE ProdUpTo(_, _)
ProdUpTo(col, i) ==
    IF i < 0 THEN <<1, 1>>
    ELSE IF col[i] = NaN THEN ProdUpTo(col, i - 1)
    ELSE Mul(ProdUpTo(col, i - 1), col[i])

cumprod(col) ==
    [i \in DOMAIN col |-> IF col[i] = NaN THEN NaN ELSE ProdUpTo(col, i)]

\* (1 + returns).cumprod() - 1
cumulative_returns(returns) ==
    LET growth == cumprod([i \in DOMAIN returns |-> Plus(returns[i], 1)])
    IN [i \in DOMAIN returns |-> Plus(growth[i], -1)]

\* Daily_Return * Managed_Position.shift(1)
strategy_returns(df) ==
    LET daily == pct_change(df.Close)
        held == shift(df.Managed_Position)
    IN [i \in DOMAIN df.Close |-> Mul(daily[i], held[i])]

backtest_strategy(df) ==
    LET daily == pct_change(df.Close)
        strategy == strategy_returns(df)
    IN [df EXCEPT !.Daily_Return = daily,
                  !.Strategy_Return = strategy,
                  !.Cumulative_Market_Returns = cumulative_returns(daily),
                  !.Cumulative_Strategy_Returns = cumulative_returns(strategy)]

\* the three calls every grid cell makes, on the table df
Pipeline(df, p) ==
    backtest_strategy(
        apply_risk_management(
            apply_moving_average_strategy(df, p.short_window, p.long_window),
            p.stop_loss, p.take_profit))

\* the call replaced a Managed_Position column that held other values
Overwritten(before, after) ==
    /\ DOMAIN before.Managed_Position # {}
    /\ before.Managed_Position # after.Managed_Position

NoParams ==
    [short_window |-> 0, long_window |-> 0, stop_loss |-> 0, take_profit |-> 0]

EmptyGrid ==
    [short_window |-> <<>>, long_window |-> <<>>,
     stop_loss |-> <<>>, take_profit |-> <<>>]

(***************************************************************************)
(* Direct calls of the three functions on one table, in pipeline order.    *)
(* pc names the last call made; params the arguments of the last calls;    *)
(* overwrote records that the current run replaced a Managed_Position      *)
(* column an earlier run had left with other values.                       *)
(***************************************************************************)
Init ==
    /\ crypto_data \in {NewTable(c) : c \in PriceSeries}
    /\ pc = "new"
    /\ params = NoParams
    /\ overwrote = FALSE
    /\ error = "None"
    /\ mode = "direct"
    /\ grid = EmptyGrid
    /\ idx = 0
    /\ best_params = NoParams
    /\ best_return = NegInf
    /\ best_results = "None"

CallMovingAverage ==
    /\ mode = "direct"
    /\ pc \in {"new", "bt"}
    /\ \E sw \in Windows, lw \in Windows :
          /\ crypto_data' = apply_moving_average_strategy(crypto_data, sw, lw)
          /\ params' = [params EXCEPT !.short_window = sw, !.long_window = lw]
    /\ overwrote' = FALSE
    /\ pc' = "ma"
    /\ UNCHANGED <<error, searchVars>>

CallRiskManagement ==
    /\ mode = "direct"
    /\ pc = "ma"
    /\ \E sl \in StopLossPcts, tp \in TakeProfitPcts :
          /\ crypto_data' = apply_risk_management(crypto_data, sl, tp)
          /\ params' = [params EXCEPT !.stop_loss = sl, !.take_profit = tp]
    /\ overwrote' = Overwritten(crypto_data, crypto_data')
    /\ pc' = "rm"
    /\ UNCHANGED <<error, searchVars>>

CallBacktest ==
    /\ mode = "direct"
    /\ pc = "rm"
    /\ crypto_data' = backtest_strategy(crypto_data)
    /\ pc' = "bt"
    /\ UNCHANGED <<params, overwrote, error, searchVars>>

Next == CallMovingAverage \/ CallRiskManagement \/ CallBacktest

Spec == Init /\ [][Next]_vars

(***************************************************************************)
(* The grid search: tune_hyperparameters and main.hyperparameter_tuning    *)
(***************************************************************************)
AxisNames == {"short_window", "long_window", "stop_loss", "take_profit"}

\* sklearn's ParameterGrid iterates product() over the keys in sorted order
ParameterGridOrder ==
    <<"long_window", "short_window", "stop_loss", "take_profit">>

\* the four nested for loops of main.hyperparameter_tuning, outer to inner
NestedLoopOrder ==
    <<"short_window", "long_window", "stop_loss", "take_profit">>

GridSize(g) ==
    Len(g.short_window) * Len(g.long_window)
        * Len(g.stop_loss) * Len(g.take_profit)

\* number of cells one step of axis order[j] spans (the last axis runs fastest)
RECURSIVE Stride(_, _, _)
Stride(g, order, j) ==
    IF j >= Len(order) THEN 1
    ELSE Len(g[order[j + 1]]) * Stride(g, order, j + 1)

\* the k-th parameter set (k from 0) of the enumeration in the given order
CellAt(order, g, k) ==
    LET pos(j) == (k \div Stride(g, order, j)) % Len(g[order[j]])
        axisOf(a) == CHOOSE j \in 1 .. Len(order) : order[j] = a
    IN [a \in AxisNames |-> g[a][pos(axisOf(a)) + 1]]

\* results['Cumulative_Strategy_Returns'].iloc[-1]
TerminalReturn(df) ==
    df.Cumulative_Strategy_Returns[Len0(df.Close) - 1]

\* best_results is a reference: every call returns the one table it was given
Deref(ref) == crypto_data

\* metrics.print_performance_metrics: the terminal value of the cumulative
\* returns it recomputes from data['Strategy_Return']
print_performance_metrics(data) ==
    cumulative_returns(data.Strategy_Return)[Len0(data.Close) - 1]

Grids ==
    {[short_window |-> s, long_window |-> l, stop_loss |-> sl, take_profit |-> tp] :
        s \in ShortWindowLists, l \in LongWindowLists,
        sl \in StopLossLists, tp \in TakeProfitLists}

\* the literal param_grid of main.py: no empty axis, every short window
\* below every long window
MainGrids ==
    {g \in Grids :
        /\ GridSize(g) > 0
        /\ \A i \in 1 .. Len(g.short_window) : \A j \in 1 .. Len(g.long_window) :
              g.short_window[i] < g.long_window[j]}

InitSearch ==
    /\ mode \in {"tune", "main"}
    /\ crypto_data \in {NewTable(c) : c \in PriceSeries}
    \* fetch_crypto_data_multiple drops empty tables before main's loop
    /\ mode = "main" => Len0(crypto_data.Close) > 0
    /\ grid \in IF mode = "main" THEN MainGrids ELSE Grids
    /\ pc = "loop"
    /\ params = NoParams
    /\ overwrote = FALSE
    /\ error = "None"
    /\ idx = 0
    /\ best_params = NoParams
    /\ best_return = NegInf
    /\ best_results = "None"

\* one pass of the loop body for the cell at position idx
Iteration(order, keepResults) ==
    /\ pc = "loop"
    /\ idx < GridSize(grid)
    /\ LET p == CellAt(order, grid, idx)
           results == Pipeline(crypto_data, p)
       IN /\ crypto_data' = results
          /\ params' = p
          /\ overwrote' = Overwritten(crypto_data, results)
          /\ IF Len0(results.Close) = 0
             THEN \* .iloc[-1] on an empty column
                  /\ error' = "IndexError"
                  /\ pc' = "done"
                  /\ UNCHANGED <<idx, best_params, best_return, best_results>>
             ELSE /\ IF Gt(TerminalReturn(results), best_return)
                     THEN /\ best_return' = TerminalReturn(results)
                          /\ best_params' = p
                          /\ best_results' = IF keepResults THEN "crypto_data"
                                             ELSE best_results
                     ELSE UNCHANGED <<best_params, best_return, best_results>>
                  /\ idx' = idx + 1
                  /\ UNCHANGED <<pc, error>>
    /\ UNCHANGED <<mode, grid>>

tune_hyperparameters_iteration ==
    /\ mode = "tune"
    /\ Iteration(ParameterGridOrder, FALSE)

tune_hyperparameters_return ==
    /\ mode = "tune"
    /\ pc = "loop"
    /\ idx = GridSize(grid)
    /\ pc' = "done"
    /\ UNCHANGED <<crypto_data, params, overwrote, error, searchVars>>

hyperparameter_tuning_iteration ==
    /\ mode = "main"
    /\ Iteration(NestedLoopOrder, TRUE)

\* after the loops: print_performance_metrics(best_results), then return
hyperparameter_tuning_finish ==
    /\ mode = "main"
    /\ pc = "loop"
    /\ idx = GridSize(grid)
    /\ error' = IF best_results = "None" THEN "TypeError" ELSE "None"
    /\ pc' = "done"
    /\ UNCHANGED <<crypto_data, params, overwrote, searchVars>>

NextSearch ==
    \/ tune_hyperparameters_iteration
    \/ tune_hyperparameters_return
    \/ hyperparameter_tuning_iteration
    \/ hyperparameter_tuning_finish

SpecSearch == InitSearch /\ [][NextSearch]_vars

(***************************************************************************)
(* Properties of the direct calls (Spec)                                   *)
(***************************************************************************)
Rows == DOMAIN crypto_data.Close

\* a fresh table run once through the three calls
FreshRun(close, p) == Pipeline(NewTable(close), p)

\* the price crossed one of the two thresholds between rows t-1 and t
Crossed(t) ==
    \/ crypto_data.Close[t] * 100
          < crypto_data.Close[t - 1] * (100 - params.stop_loss)
    \/ crypto_data.Close[t] * 100
          > crypto_data.Close[t - 1] * (100 + params.take_profit)

\* C1: after apply_risk_management, at every row t >= 1: if the managed
\* position at t-1 is Long and the close at t is strictly below
\* close[t-1]*(1-stop_loss) or strictly above close[t-1]*(1+take_profit),
\* the managed position at t is Flat whatever the trend flag; in every other
\* case it equals the trend flag at t.
C1_RiskOverlayRule ==
    pc \in {"rm", "bt"} =>
        \A t \in Rows :
            t >= 1 =>
                crypto_data.Managed_Position[t] =
                    IF crypto_data.Managed_Position[t - 1] = 1 /\ Crossed(t)
                    THEN 0
                    ELSE crypto_data.Signal[t]

\* a stop-loss exit that overrides an Up flag
C1_Witness ==
    /\ pc = "rm"
    /\ \E t \in Rows :
          /\ t >= 1
          /\ crypto_data.Managed_Position[t - 1] = 1
          /\ crypto_data.Signal[t] = 1
          /\ crypto_data.Close[t] * 100
                < crypto_data.Close[t - 1] * (100 - params.stop_loss)
          /\ crypto_data.Managed_Position[t] = 0

\* C7 (as claimed): apply_risk_management called with a stop_loss or a
\* take_profit outside the open interval (0,1) fails with
\* InvalidRiskParameter instead of computing managed positions.
C7_InvalidRiskParameterRaised ==
    (/\ pc = "rm"
     /\ \/ params.stop_loss \notin 1 .. 99
        \/ params.take_profit \notin 1 .. 99)
        => error = "InvalidRiskParameter"

\* short average > long average at row i, computed from the closes
ShortAboveLong(i) ==
    SumRange(crypto_data.Close, i - params.short_window + 1, i)
            * params.long_window
        > SumRange(crypto_data.Close, i - params.long_window + 1, i)
            * params.short_window

\* C9 (as claimed): with short_window < long_window the flag is Down at
\* every row with index < long_window, and at every row with
\* index >= long_window it is Up exactly when the short average is strictly
\* greater than the long average.
C9_FlagFromIndexLongWindow ==
    (pc \in {"ma", "rm", "bt"} /\ params.short_window < params.long_window) =>
        \A i \in Rows :
            /\ i < params.long_window => crypto_data.Signal[i] = 0
            /\ i >= params.long_window =>
                  (crypto_data.Signal[i] = 1 <=> ShortAboveLong(i))

\* C9 (amended): with short_window < long_window the flag is Down at every
\* row with index < long_window - 1, and at every row with
\* index >= long_window - 1 (the first row where both averages exist) it is
\* Up exactly when the short average is strictly greater than the long one.
C9_FlagFromFirstFullWindow ==
    (pc \in {"ma", "rm", "bt"} /\ params.short_window < params.long_window) =>
        \A i \in Rows :
            /\ i < params.long_window - 1 => crypto_data.Signal[i] = 0
            /\ i >= params.long_window - 1 =>
                  (crypto_data.Signal[i] = 1 <=> ShortAboveLong(i))

\* the flag is Up on the first row with a full long window, where the
\* warm-up rows before it are Down although the price rose, and Down later
C9_Witness ==
    /\ pc = "ma"
    /\ params.short_window < params.long_window
    /\ params.long_window \in Rows
    /\ crypto_data.Signal[params.long_window - 1] = 1
    /\ crypto_data.Signal[params.long_window] = 0
    /\ crypto_data.Close[1] > crypto_data.Close[0]
    /\ params.long_window >= 3

\* C10: after apply_risk_management the managed position is Long only where
\* the trend flag is Up, row 0 is Flat, and a Flat position under an Up flag
\* occurs only at t >= 1 after a Long position at t-1 with a stop-loss or
\* take-profit threshold crossed between close[t-1] and close[t].
C10_OverlayOnlyRemovesExposure ==
    pc \in {"rm", "bt"} =>
        \A t \in Rows :
            /\ t = 0 => crypto_data.Managed_Position[t] = 0
            /\ crypto_data.Managed_Position[t] = 1 => crypto_data.Signal[t] = 1
            /\ (crypto_data.Managed_Position[t] = 0 /\ crypto_data.Signal[t] = 1) =>
                  /\ t >= 1
                  /\ crypto_data.Managed_Position[t - 1] = 1
                  /\ Crossed(t)

\* exposure removed by a take-profit exit under an Up flag, and an Up flag
\* kept after a Flat row although the price crossed a threshold
C10_Witness ==
    /\ pc = "rm"
    /\ \E t \in Rows :
          /\ t >= 1
          /\ crypto_data.Signal[t] = 1
          /\ crypto_data.Managed_Position[t] = 0
          /\ crypto_data.Managed_Position[t - 1] = 1
          /\ crypto_data.Close[t] * 100
                > crypto_data.Close[t - 1] * (100 + params.take_profit)
    /\ \E t \in Rows :
          /\ t >= 1
          /\ crypto_data.Managed_Position[t - 1] = 0
          /\ Crossed(t)
          /\ crypto_data.Managed_Position[t] = 1

\* the Strategy_Return column of a run on a fresh table
FreshStrategyReturns(close, p) ==
    strategy_returns(
        apply_risk_management(
            apply_moving_average_strategy(NewTable(close),
                                          p.short_window, p.long_window),
            p.stop_loss, p.take_profit))

\* alt and close agree on rows 0 .. t
AgreeUpTo(alt, close, t) ==
    /\ t \in DOMAIN alt
    /\ t \in DOMAIN close
    /\ \A j \in 0 .. t : alt[j] = close[j]

\* the price series that agree with close on rows 0 .. t
AgreeingSeries(close, t) == {alt \in PriceSeries : AgreeUpTo(alt, close, t)}

\* C2: after the three calls, the strategy return at row t is the period
\* price return at t times the managed position at t-1 (undefined at row 0,
\* in every run), and it is the same for every price series that agrees on
\* the rows up to and including t.
C2_NoLookahead ==
    pc = "bt" =>
        /\ \A t \in Rows :
              crypto_data.Strategy_Return[t] =
                  IF t = 0 THEN NaN
                  ELSE Mul(Rat(crypto_data.Close[t] - crypto_data.Close[t - 1],
                               crypto_data.Close[t - 1]),
                           <<crypto_data.Managed_Position[t - 1], 1>>)
        /\ \A alt \in AgreeingSeries(crypto_data.Close, 1) :
              \A other \in {FreshStrategyReturns(alt, params)} :
                  \A t \in Rows :
                      AgreeUpTo(alt, crypto_data.Close, t) =>
                          other[t] = crypto_data.Strategy_Return[t]

\* a non-zero strategy return at a row that is followed by later rows, with
\* an agreeing series whose managed position differs on a later row
C2_Witness ==
    /\ pc = "bt"
    /\ \E t \in Rows :
          /\ t + 1 \in Rows
          /\ crypto_data.Strategy_Return[t] # NaN
          /\ crypto_data.Strategy_Return[t][1] # 0
          /\ \E alt \in AgreeingSeries(crypto_data.Close, t) :
                /\ DOMAIN alt = Rows
                /\ FreshRun(alt, params).Managed_Position[t + 1]
                      # crypto_data.Managed_Position[t + 1]

\* C8: a run of the three calls leaves the Signal, Managed_Position and
\* return columns a run on a fresh table with the same closes and parameters
\* yields, whatever earlier runs left in the table.
C8_RunIndependentOfEarlierRuns ==
    pc = "bt" =>
        LET fresh == FreshRun(crypto_data.Close, params)
        IN /\ crypto_data.Signal = fresh.Signal
           /\ crypto_data.Managed_Position = fresh.Managed_Position
           /\ crypto_data.Daily_Return = fresh.Daily_Return
           /\ crypto_data.Strategy_Return = fresh.Strategy_Return
           /\ crypto_data.Cumulative_Market_Returns
                 = fresh.Cumulative_Market_Returns
           /\ crypto_data.Cumulative_Strategy_Returns
                 = fresh.Cumulative_Strategy_Returns

\* a completed run that replaced the positions of an earlier run by other
\* ones and earned a non-zero return
C8_Witness ==
    /\ pc = "bt"
    /\ overwrote
    /\ \E t \in Rows :
          /\ crypto_data.Strategy_Return[t] # NaN
          /\ crypto_data.Strategy_Return[t][1] # 0

(***************************************************************************)
(* Properties of the grid search (SpecSearch)                              *)
(***************************************************************************)
Returned == pc = "done" /\ error = "None" /\ best_params # NoParams

\* the score of a parameter set: the terminal cumulative strategy return
Score(p) == TerminalReturn(FreshRun(crypto_data.Close, p))

\* C3 (as claimed): a parameter set with short_window >= long_window is
\* skipped, so the best_params returned when the search ends never has
\* short_window >= long_window.
C3_BestParamsHasShortBelowLong ==
    Returned => best_params.short_window < best_params.long_window

\* position of a parameter set in the order short_window (outermost),
\* long_window, stop_loss, take_profit (innermost)
SpecIndex(p) ==
    CHOOSE k \in 0 .. GridSize(grid) - 1 :
        /\ CellAt(NestedLoopOrder, grid, k) = p
        /\ \A j \in 0 .. k - 1 : CellAt(NestedLoopOrder, grid, j) # p

\* every parameter set of the grid has short_window < long_window
AllCellsValid ==
    \A i \in 1 .. Len(grid.short_window) : \A j \in 1 .. Len(grid.long_window) :
        grid.short_window[i] < grid.long_window[j]

\* C4 (as claimed): of the parameter sets whose score equals the best score,
\* the one returned is the earliest in the order short_window, long_window,
\* stop_loss, take_profit, in tune_hyperparameters and in
\* main.hyperparameter_tuning alike (stated for grids in which every
\* parameter set is one the search is meant to score).
C4_EarliestInAxisOrderWinsTies ==
    (Returned /\ AllCellsValid) =>
        \A k \in 0 .. GridSize(grid) - 1 :
            Score(CellAt(NestedLoopOrder, grid, k)) = best_return
                => SpecIndex(best_params) <= k

\* C5 (as claimed): when main.hyperparameter_tuning has finished its loop,
\* the records best_results refers to are those of the run with best_params,
\* and their terminal cumulative strategy return equals best_return.
C5_BestResultsAreTheWinnersRecords ==
    (mode = "main" /\ pc = "done" /\ best_results # "None") =>
        /\ Deref(best_results).Strategy_Return
              = FreshRun(crypto_data.Close, best_params).Strategy_Return
        /\ print_performance_metrics(Deref(best_results)) = best_return

\* C6 (as claimed): the search visits every cell and ends either with the
\* best combination or with an explicit "no valid combination" result, never
\* in a crash of the entry point (stated for price tables with at least one
\* row).
C6_SearchNeverCrashes ==
    (pc = "done" /\ Rows # {}) => (error = "None" /\ idx = GridSize(grid))

====
